---- MODULE Spec2Model ----
(***************************************************************************)
(* crocsoc: the framing layer of a server-side WebSocket endpoint.         *)
(*                                                                         *)
(* One connection is modelled.  The peer (client) writes frames as bytes   *)
(* on the wire; the embedder calls ReadMessage, whose loop reads one frame *)
(* per iteration with readFrame, answers control frames inline through     *)
(* WriteFrame, and assembles data frames into one message.                 *)
(*                                                                         *)
(* Bytes are the integers 0..255.  A payload is a sequence of bytes.       *)
(***************************************************************************)
EXTENDS Integers, Sequences, FiniteSets, TLC

VARIABLES
    inbuf,          \* bytes written by the peer and not yet read by the server
    eof,            \* the peer has closed its side of the connection
    out,            \* every byte the server has written, in order
    pc,             \* "idle": no ReadMessage call is running; "loop": inside its for loop;
                    \* "panic": the goroutine running ReadMessage has panicked
    frags,          \* ReadMessage's local frags, the frames buffered so far
    initialOpcode,  \* ReadMessage's local initialOpcode
    ret,            \* what the last ReadMessage call returned
    pending,        \* history: the frame the peer wrote that is still on the wire
    lastRx,         \* history: the peer's frame consumed by the latest readFrame of the call
    g,              \* history: what the peer has sent within the current call
    gPings,         \* history: payloads of the pings consumed so far, in order
    lastRaw,        \* history: the malformed write consumed by the latest readFrame
    lastOut,        \* history: the bytes the latest loop iteration wrote
    gClosed,        \* history: a close frame of the peer has been consumed
    wpc,            \* per writing task: where its WriteFrame call stands
    wf,             \* per writing task: the frame its WriteFrame call was given
    wlog,           \* history: the frames whose write has begun, in that order
    rf,             \* what readFrame made of the bytes written
    req,            \* the HTTP request given to WsHandler
    resp,           \* the HTTP response WsHandler has produced
    upgraded,       \* the connection was hijacked and handed to ServeConn
    spc,            \* where the goroutine running ServeConn stands; "none": not started
    clientKey,      \* the key SecAcceptSha is called with
    b64,            \* the accept token made from what SecAcceptSha returned
    stream,         \* history: the frames a stream handed to ReadMessage held at first
    wbroken,        \* writes on the connection fail
    replyFailed,    \* history: the write of a reply to a control frame has failed
    delivered       \* history: the messages ReadMessage has returned from such a stream

\* the connection as ReadMessage sees it
connVars == <<inbuf, eof, out, pc, frags, initialOpcode, ret, pending, lastRx, g, gPings,
              lastRaw, lastOut, gClosed>>

\* the tasks that write frames
writeVars == <<wpc, wf, wlog, rf>>

\* the opening handshake
hsVars == <<req, resp, upgraded>>

\* the accept token computed on its own
acceptVars == <<clientKey, b64>>

\* what no step of the read loop changes
envVars == <<acceptVars, spc, stream, wbroken>>

vars == <<connVars, writeVars, hsVars, envVars, replyFailed, delivered>>

----------------------------------------------------------------------------
(* Bounds of the model *)

\* frames of one message: the peer sends no further non-final fragment once
\* MaxFrags - 1 fragments are buffered
MaxFrags == 3
\* frames the server is made to write on one connection (pongs and closes)
MaxOut == 2
\* the cap on the bytes buffered for a message in progress that the fragment
\* buffer is checked against
MaxBuffered == 1

----------------------------------------------------------------------------
(* Opcodes *)

OpCont == 0
OpText == 1
OpBinary == 2
OpClose == 8
OpPing == 9
OpPong == 10

None == [none |-> TRUE]

\* the goroutines that may write on one connection: the one running
\* ReadMessage, which answers control frames, and the application's
Tasks == {"reader", "app"}

----------------------------------------------------------------------------
(* Byte and sequence helpers *)

Byte == 0..255

Min(a, b) == IF a < b THEN a ELSE b

Take(s, n) == SubSeq(s, 1, Min(n, Len(s)))

Drop(s, n) == SubSeq(s, Min(n, Len(s)) + 1, Len(s))

Zeros(n) == [i \in 1..n |-> 0]

RECURSIVE XorBits(_, _, _)
XorBits(a, b, n) ==
    IF n = 0 THEN 0
    ELSE (((a % 2) + (b % 2)) % 2) + 2 * XorBits(a \div 2, b \div 2, n - 1)

XorTable == [a \in Byte |-> [b \in Byte |-> XorBits(a, b, 8)]]

\* a ^ b on bytes
Xor(a, b) == XorTable[a][b]

\* io.ReadFull(conn, buf) with len(buf) = n on a stream holding s: the bytes
\* read land at the front of the zero-initialised buffer; fewer than n only
\* when the stream has ended
ReadFull(s, n) ==
    [data |-> Take(s, n) \o Zeros(n - Min(n, Len(s))),
     got  |-> Min(n, Len(s)),
     rest |-> Drop(s, n)]

\* a faulty Uint16: least significant byte first
Uint16LittleEndian(b) == b[1] + (b[2] * 256)

\* binary.BigEndian.Uint16
Uint16(b) == (b[1] * 256) + b[2]

\* int(binary.BigEndian.Uint64(b)).  Lengths below 2^24 are computed; a set
\* high bit gives a negative int (-1 stands for it); the lengths in between
\* are outside the modelled range (AllocHuge stands for them).
AllocHuge == 256 * 65536

IntOfUint64(b) ==
    IF b[1] >= 128 THEN -1
    ELSE IF \E i \in 1..5 : b[i] # 0 THEN AllocHuge
    ELSE (b[6] * 65536) + (b[7] * 256) + b[8]

----------------------------------------------------------------------------
(* unicode/utf8.Valid *)

IsCont(b) == b >= 128 /\ b <= 191

RECURSIVE UTF8Valid(_)
UTF8Valid(s) ==
    IF Len(s) = 0 THEN TRUE
    ELSE LET b == s[1]
             n == Len(s)
         IN  IF b < 128 THEN UTF8Valid(Drop(s, 1))
             ELSE IF b >= 194 /\ b <= 223
                  THEN n >= 2 /\ IsCont(s[2]) /\ UTF8Valid(Drop(s, 2))
             ELSE IF b >= 224 /\ b <= 239
                  THEN /\ n >= 3
                       /\ IsCont(s[2]) /\ IsCont(s[3])
                       /\ (b = 224 => s[2] >= 160)
                       /\ (b = 237 => s[2] <= 159)
                       /\ UTF8Valid(Drop(s, 3))
             ELSE IF b >= 240 /\ b <= 244
                  THEN /\ n >= 4
                       /\ IsCont(s[2]) /\ IsCont(s[3]) /\ IsCont(s[4])
                       /\ (b = 240 => s[2] >= 144)
                       /\ (b = 244 => s[2] <= 143)
                       /\ UTF8Valid(Drop(s, 4))
             ELSE FALSE

----------------------------------------------------------------------------
(* Frame codec, read path *)

NoFrame == [Fin |-> FALSE, Opcode |-> 0, Payload |-> <<>>]

\* a faulty Unmask: every byte is unmasked with the first key byte
UnmaskFirstKeyByte(payload, key) ==
    [i \in 1..Len(payload) |-> Xor(payload[i], key[1])]

\* payload[i] ^= maskingKey[i%4], i counted from 0
Unmask(payload, key) ==
    [i \in 1..Len(payload) |-> Xor(payload[i], key[((i - 1) % 4) + 1])]

\* a faulty readFrame: the end of the stream before a header is reported as
\* a failed header read
readFrameEofIsError(s) ==
    LET hdr == ReadFull(s, 2) IN
    IF hdr.got < 2 THEN [err |-> "header", frame |-> NoFrame, rest |-> hdr.rest]
    ELSE
    LET b0     == hdr.data[1]
        b1     == hdr.data[2]
        fin    == b0 >= 128
        opcode == b0 % 16
        mask   == b1 >= 128
        len7   == b1 % 128
        ext    == IF len7 = 126 THEN ReadFull(hdr.rest, 2)
                  ELSE IF len7 = 127 THEN ReadFull(hdr.rest, 8)
                  ELSE ReadFull(hdr.rest, 0)
        payLen == IF len7 = 126 THEN Uint16(ext.data)
                  ELSE IF len7 = 127 THEN IntOfUint64(ext.data)
                  ELSE len7
        key    == IF mask THEN ReadFull(ext.rest, 4) ELSE ReadFull(ext.rest, 0)
    IN  IF payLen < 0 \/ payLen >= AllocHuge
        THEN [err |-> "panic", frame |-> NoFrame, rest |-> key.rest]
        ELSE LET body == ReadFull(key.rest, payLen) IN
             [err   |-> "nil",
              frame |-> [Fin     |-> fin,
                         Opcode  |-> opcode,
                         Payload |-> IF mask THEN Unmask(body.data, key.data)
                                     ELSE body.data],
              rest  |-> body.rest]

\* readFrame on a stream holding s (all of s is readable: either the whole
\* frame has arrived or the stream has ended).  err is "nil", "EOF",
\* "header" (failed to read frame header) or "panic" (make with a length
\* that is negative or cannot be allocated).  Only the header read is
\* checked; the later reads ignore their errors.
readFrame(s) ==
    LET hdr == ReadFull(s, 2) IN
    IF hdr.got = 0 THEN [err |-> "EOF", frame |-> NoFrame, rest |-> s]
    ELSE IF hdr.got < 2 THEN [err |-> "header", frame |-> NoFrame, rest |-> hdr.rest]
    ELSE
    LET b0     == hdr.data[1]
        b1     == hdr.data[2]
        fin    == b0 >= 128
        opcode == b0 % 16
        mask   == b1 >= 128
        len7   == b1 % 128
        ext    == IF len7 = 126 THEN ReadFull(hdr.rest, 2)
                  ELSE IF len7 = 127 THEN ReadFull(hdr.rest, 8)
                  ELSE ReadFull(hdr.rest, 0)
        payLen == IF len7 = 126 THEN Uint16(ext.data)
                  ELSE IF len7 = 127 THEN IntOfUint64(ext.data)
                  ELSE len7
        key    == IF mask THEN ReadFull(ext.rest, 4) ELSE ReadFull(ext.rest, 0)
    IN  IF payLen < 0 \/ payLen >= AllocHuge
        THEN [err |-> "panic", frame |-> NoFrame, rest |-> key.rest]
        ELSE LET body == ReadFull(key.rest, payLen) IN
             [err   |-> "nil",
              frame |-> [Fin     |-> fin,
                         Opcode  |-> opcode,
                         Payload |-> IF mask THEN Unmask(body.data, key.data)
                                     ELSE body.data],
              rest  |-> body.rest]

\* the number of bytes readFrame waits for on a stream whose front is s
FrameNeed(s) ==
    IF Len(s) < 2 THEN 2
    ELSE LET len7   == s[2] % 128
             extLen == IF len7 = 126 THEN 2 ELSE IF len7 = 127 THEN 8 ELSE 0
             keyLen == IF s[2] >= 128 THEN 4 ELSE 0
         IN  IF Len(s) < 2 + extLen THEN 2 + extLen
             ELSE LET e      == SubSeq(s, 3, 2 + extLen)
                      payLen == IF len7 = 126 THEN Uint16(e)
                                ELSE IF len7 = 127 THEN IntOfUint64(e)
                                ELSE len7
                  IN  IF payLen < 0 \/ payLen >= AllocHuge THEN 2 + extLen + keyLen
                      ELSE 2 + extLen + keyLen + payLen

\* a blocking read returns once the bytes are there or the stream has ended
Readable == eof \/ Len(inbuf) >= FrameNeed(inbuf)

----------------------------------------------------------------------------
(* Frame codec, write path *)

\* a faulty FrameHeader: the 16-bit length form is used for short payloads too
FrameHeaderAlways16(f) ==
    LET b0 == (IF f.Fin THEN 128 ELSE 0) + (f.Opcode % 16)
        n  == Len(f.Payload)
    IN  IF n <= 65535 THEN <<b0, 126, n \div 256, n % 256>>
        ELSE <<b0, 127, 0, 0, 0, 0, 0, n \div 65536, (n \div 256) % 256, n % 256>>

\* the header WriteFrame builds for frame f and writes first
FrameHeader(f) ==
    LET b0 == (IF f.Fin THEN 128 ELSE 0) + (f.Opcode % 16)
        n  == Len(f.Payload)
    IN  IF n <= 125 THEN <<b0, n>>
        ELSE IF n <= 65535 THEN <<b0, 126, n \div 256, n % 256>>
        ELSE <<b0, 127, 0, 0, 0, 0, 0, n \div 65536, (n \div 256) % 256, n % 256>>

\* the bytes WriteFrame writes for frame f: header, then payload
WriteFrame(f) == FrameHeader(f) \o f.Payload

\* a faulty SendPongFrame: the pong is sent as another ping
SendPongFrameAsPing(payload) ==
    WriteFrame([Fin |-> TRUE, Opcode |-> OpPing, Payload |-> payload])

\* the frame SendPongFrame builds
PongFrame(payload) == [Fin |-> TRUE, Opcode |-> OpPong, Payload |-> payload]

SendPongFrame(payload) == WriteFrame(PongFrame(payload))

\* a faulty CloseFrame: the payload is the reason alone, without the code
CloseFrameNoCode(code, reason) ==
    [Fin |-> TRUE, Opcode |-> OpClose, Payload |-> reason]

\* the frame SendCloseFrame builds
CloseFrame(code, reason) ==
    [Fin |-> TRUE, Opcode |-> OpClose,
     Payload |-> <<code \div 256, code % 256>> \o reason]

SendCloseFrame(code, reason) == WriteFrame(CloseFrame(code, reason))

\* "Closing in response"
ClosingInResponse ==
    <<67, 108, 111, 115, 105, 110, 103, 32, 105, 110, 32,
      114, 101, 115, 112, 111, 110, 115, 101>>

NormalClosure == 1000

----------------------------------------------------------------------------
(* Message assembler *)

isControlFrame(f) == f.Opcode \in {OpClose, OpPing, OpPong}

\* a faulty handleControlFrame: a ping is answered twice
handleControlFrameTwice(f) ==
    IF f.Opcode = OpClose THEN SendCloseFrame(NormalClosure, ClosingInResponse)
    ELSE IF f.Opcode = OpPing THEN SendPongFrame(f.Payload) \o SendPongFrame(f.Payload)
    ELSE <<>>

\* a faulty handleControlFrame: a pong is answered with a pong
handleControlFrameAnswersPong(f) ==
    IF f.Opcode = OpClose THEN SendCloseFrame(NormalClosure, ClosingInResponse)
    ELSE SendPongFrame(f.Payload)

\* the bytes handleControlFrame writes for control frame f
handleControlFrame(f) ==
    IF f.Opcode = OpClose THEN SendCloseFrame(NormalClosure, ClosingInResponse)
    ELSE IF f.Opcode = OpPing THEN SendPongFrame(f.Payload)
    ELSE <<>>

\* a faulty CombinePayloads: the payload of the last fragment alone
CombinePayloadsLast(fs) ==
    IF Len(fs) = 0 THEN <<>> ELSE fs[Len(fs)].Payload

RECURSIVE CombinePayloads(_)
CombinePayloads(fs) ==
    IF Len(fs) = 0 THEN <<>>
    ELSE fs[1].Payload \o CombinePayloads(Tail(fs))

NoRet == [site |-> "none", msg |-> <<>>, err |-> "nil"]

Return(site, msg, err) == [site |-> site, msg |-> msg, err |-> err]

\* a faulty Assemble: UTF-8 is checked on every text fragment as it arrives
AssemblePerFragment(fs, init, frame) ==
    LET first == Len(fs) = 0
        op0   == IF first THEN frame.Opcode ELSE init
        fs2   == Append(fs, frame)
    IN  IF first /\ op0 # OpText /\ op0 # OpBinary
        THEN [done |-> TRUE, frags |-> fs, init |-> op0,
              ret |-> Return("unsupported", <<>>, "unsupported opcode")]
        ELSE IF ~first /\ frame.Opcode # OpCont
        THEN [done |-> TRUE, frags |-> fs, init |-> op0,
              ret |-> Return("unexpected", <<>>, "unexpected opcode in continuation frame")]
        ELSE IF op0 = OpText /\ ~UTF8Valid(frame.Payload)
        THEN [done |-> TRUE, frags |-> fs2, init |-> op0,
              ret |-> Return("utf8", <<>>, "invalid UTF-8 in text frame")]
        ELSE IF ~frame.Fin
        THEN [done |-> FALSE, frags |-> fs2, init |-> op0, ret |-> NoRet]
        ELSE IF op0 = OpText
        THEN [done |-> TRUE, frags |-> fs2, init |-> op0,
              ret |-> Return("text", CombinePayloads(fs2), "nil")]
        ELSE [done |-> TRUE, frags |-> fs2, init |-> op0,
              ret |-> Return("binary", <<>>, "binary frames not supported yet")]

\* the body of ReadMessage's loop for a data frame: frags and initialOpcode
\* after it, and the value returned when the loop is left
Assemble(fs, init, frame) ==
    LET first == Len(fs) = 0
        op0   == IF first THEN frame.Opcode ELSE init
        fs2   == Append(fs, frame)
    IN  IF first /\ op0 # OpText /\ op0 # OpBinary
        THEN [done |-> TRUE, frags |-> fs, init |-> op0,
              ret |-> Return("unsupported", <<>>, "unsupported opcode")]
        ELSE IF ~first /\ frame.Opcode # OpCont
        THEN [done |-> TRUE, frags |-> fs, init |-> op0,
              ret |-> Return("unexpected", <<>>, "unexpected opcode in continuation frame")]
        ELSE IF ~frame.Fin
        THEN [done |-> FALSE, frags |-> fs2, init |-> op0, ret |-> NoRet]
        ELSE IF op0 = OpText
        THEN IF UTF8Valid(CombinePayloads(fs2))
             THEN [done |-> TRUE, frags |-> fs2, init |-> op0,
                   ret |-> Return("text", CombinePayloads(fs2), "nil")]
             ELSE [done |-> TRUE, frags |-> fs2, init |-> op0,
                   ret |-> Return("utf8", <<>>, "invalid UTF-8 in text frame")]
        ELSE IF op0 = OpBinary
        THEN [done |-> TRUE, frags |-> fs2, init |-> op0,
              ret |-> Return("binary", <<>>, "binary frames not supported yet")]
        ELSE [done |-> TRUE, frags |-> fs2, init |-> op0,
              ret |-> Return("unknown", <<>>, "unknown opcode")]

----------------------------------------------------------------------------
(* The peer: frames a client writes, and their bytes on the wire *)

\* the masking key and the payload of the RFC 6455 examples the tests use
MaskKey == <<55, 250, 33, 61>>

Hello == <<72, 101, 108, 108, 111>>

\* 'H', and the two bytes of U+00E9, each of which alone is invalid UTF-8
FragPayloads == {<<72>>, <<195>>, <<169>>}

PingPayloads == {<<72>>}

\* rsv is the value of bits 6..4 of byte 0; lenform is the length encoding
\* used: 7 (the 7-bit field), 16 or 64
PeerFrame(fin, rsv, opcode, masked, lenform, data) ==
    [fin |-> fin, rsv |-> rsv, opcode |-> opcode, masked |-> masked,
     lenform |-> lenform, data |-> data]

\* masked frames whose opcode, fin and payload vary: fragments and messages
DataFrames ==
    {PeerFrame(fin, 0, op, TRUE, 7, p) :
        fin \in BOOLEAN, op \in {OpCont, OpText, OpBinary}, p \in FragPayloads}

\* pings (the unmasked one is the ping of the tests), a pong and a close
ControlFrames ==
    {PeerFrame(TRUE, 0, OpPing, TRUE, 7, p) : p \in PingPayloads}
    \cup {PeerFrame(TRUE, 0, OpPing, FALSE, 7, Hello),
          PeerFrame(TRUE, 0, OpPong, TRUE, 7, <<>>),
          PeerFrame(TRUE, 0, OpClose, TRUE, 7, <<>>)}

\* one text message in every header variant: masked or not, RSV1 set or not,
\* its length in the 7-bit, 16-bit or 64-bit form
HeaderVariants ==
    {PeerFrame(TRUE, rsv, OpText, masked, lf, Hello) :
        rsv \in {0, 4}, masked \in BOOLEAN, lf \in {7, 16, 64}}

\* a binary message in one unmasked frame
BinaryFrames == {PeerFrame(TRUE, 0, OpBinary, FALSE, 7, Hello)}

\* a frame with a reserved non-control opcode
ReservedFrames == {PeerFrame(TRUE, 0, 3, TRUE, 7, <<72>>)}

\* 1005 (no status received), a close code that must not appear on the wire
NoStatusRcvd == <<3, 237>>

\* frames that break a rule of RFC 6455 section 5.5 or 7.4: a reserved
\* control opcode, a fragmented ping, a close with a forbidden code, a close
\* with one byte of payload
BrokenFrames ==
    {PeerFrame(TRUE, 0, 11, TRUE, 7, <<72>>),
     PeerFrame(FALSE, 0, OpPing, TRUE, 7, <<72>>),
     PeerFrame(TRUE, 0, OpClose, TRUE, 7, NoStatusRcvd),
     PeerFrame(TRUE, 0, OpClose, TRUE, 7, <<3>>)}

\* what the peer may write next: the header variants, the binary frame and
\* the broken frames come before the first data frame of a call
PeerFrames ==
    IF frags = <<>>
    THEN DataFrames \cup ControlFrames \cup ReservedFrames
         \cup HeaderVariants \cup BinaryFrames \cup BrokenFrames
    ELSE DataFrames \cup ControlFrames \cup ReservedFrames

\* the payload bytes as they travel: the client masks byte i (from 0) with
\* byte i mod 4 of its key
WirePayload(d) ==
    IF d.masked
    THEN [i \in 1..Len(d.data) |-> Xor(d.data[i], MaskKey[((i - 1) % 4) + 1])]
    ELSE d.data

\* the bytes of frame d on the wire (RFC 6455 section 5.2)
Encode(d) ==
    LET n  == Len(d.data)
        b0 == (IF d.fin THEN 128 ELSE 0) + (d.rsv * 16) + d.opcode
        m  == IF d.masked THEN 128 ELSE 0
        hd == IF d.lenform = 7 THEN <<b0, m + n>>
              ELSE IF d.lenform = 16 THEN <<b0, m + 126, n \div 256, n % 256>>
              ELSE <<b0, m + 127, 0, 0, 0, 0, 0, 0, n \div 256, n % 256>>
    IN  hd \o (IF d.masked THEN MaskKey ELSE <<>>) \o WirePayload(d)

IsControl(d) == d.opcode \in {OpClose, OpPing, OpPong}

\* a write that is not a whole frame: the first cut bytes of frame of, after
\* which the peer closes (close), or a header that announces a length and
\* brings no payload
RawWrite(of, cut, close) ==
    [raw |-> TRUE, of |-> of, bytes |-> Take(Encode(of), cut), close |-> close]

\* 81 7F 80 00 00 00 00 00 00 00: a text frame whose 64-bit length has its
\* high bit set
HighBitHeader ==
    [raw |-> TRUE, of |-> None,
     bytes |-> <<129, 127, 128, 0, 0, 0, 0, 0, 0, 0>>, close |-> FALSE]

\* the stream ends after one header byte, inside the extended length,
\* inside the masking key, inside the payload
Truncations ==
    {RawWrite(PeerFrame(TRUE, 0, OpText, FALSE, 7, Hello), 1, TRUE),
     RawWrite(PeerFrame(TRUE, 0, OpText, FALSE, 16, Hello), 3, TRUE),
     RawWrite(PeerFrame(TRUE, 0, OpText, TRUE, 7, <<72>>), 3, TRUE),
     RawWrite(PeerFrame(TRUE, 0, OpText, FALSE, 7, Hello), 4, TRUE)}

RawWrites == Truncations \cup {HighBitHeader}

IsRaw(w) == "raw" \in DOMAIN w

\* the length of d is not in its shortest encoding
NonMinimal(d) ==
    \/ d.lenform = 16 /\ Len(d.data) <= 125
    \/ d.lenform = 64 /\ Len(d.data) <= 65535

----------------------------------------------------------------------------
(* History of the current call, kept from what the peer sent *)

\* shape: "idle" no data frame yet; "assembling" a first frame with fin=0
\* and continuations with fin=0; "complete" such a sequence ended by a
\* continuation with fin=1; "single" one final text or binary frame;
\* "bad" anything else.  kind: the opcode of the first data frame.
\* payload: the data of the data frames, concatenated in wire order.
\* clean: no close came between the fragments (pings and pongs may have).
\* split: some fragment of a text message alone is invalid UTF-8.
NoHistory ==
    [shape |-> "idle", kind |-> 0, payload |-> <<>>, clean |-> TRUE, split |-> FALSE]

Sent(h, d) ==
    IF d.opcode \in {OpPing, OpPong}
    THEN h
    ELSE IF d.opcode = OpClose
    THEN [h EXCEPT !.clean = @ /\ h.shape # "assembling"]
    ELSE IF h.shape = "idle" /\ d.opcode \in {OpText, OpBinary}
    THEN [h EXCEPT !.shape = IF d.fin THEN "single" ELSE "assembling",
                   !.kind = d.opcode,
                   !.payload = d.data,
                   !.split = d.opcode = OpText /\ ~UTF8Valid(d.data)]
    ELSE IF h.shape = "assembling" /\ d.opcode = OpCont
    THEN [h EXCEPT !.shape = IF d.fin THEN "complete" ELSE "assembling",
                   !.payload = @ \o d.data,
                   !.split = @ \/ (h.kind = OpText /\ ~UTF8Valid(d.data))]
    ELSE [h EXCEPT !.shape = "bad"]

\* the frames of server output s, which holds only short frames: each is
\* <<byte 0, byte 1, payload>>
RECURSIVE OutFrames(_)
OutFrames(s) ==
    IF Len(s) < 2 THEN <<>>
    ELSE LET n == s[2] % 128
         IN  <<[b0 |-> s[1], b1 |-> s[2], payload |-> SubSeq(s, 3, Min(2 + n, Len(s)))]>>
             \o OutFrames(Drop(s, 2 + n))

----------------------------------------------------------------------------
(* The state machine *)

\* everything but the stream and the key
InitRest ==
    /\ out = <<>>
    /\ pc = "idle"
    /\ frags = <<>>
    /\ initialOpcode = 0
    /\ ret = NoRet
    /\ pending = None
    /\ lastRx = None
    /\ g = NoHistory
    /\ gPings = <<>>
    /\ lastRaw = None
    /\ lastOut = <<>>
    /\ gClosed = FALSE
    /\ wpc = [t \in Tasks |-> "idle"]
    /\ wf = [t \in Tasks |-> None]
    /\ wlog = <<>>
    /\ rf = None
    /\ req = None
    /\ resp = None
    /\ upgraded = FALSE
    /\ spc = "none"
    /\ b64 = None
    /\ wbroken = FALSE
    /\ replyFailed = FALSE
    /\ delivered = <<>>

\* a connection on which nothing has been sent yet
Init ==
    /\ inbuf = <<>>
    /\ eof = FALSE
    /\ stream = <<>>
    /\ clientKey = None
    /\ InitRest

\* the peer writes one frame.  The connection is unbuffered (net.Pipe in the
\* tests): a write meets the read that takes it, so the peer writes while
\* the server waits in readFrame, one frame at a time.
PeerWrite ==
    /\ ~eof
    /\ pc = "loop"
    /\ pending = None
    /\ \E d \in PeerFrames :
        /\ IsControl(d) \/ d.fin \/ Len(frags) < MaxFrags - 1
        /\ d.opcode \in {OpPing, OpClose} => (Len(OutFrames(out)) < MaxOut /\ ~replyFailed)
        /\ inbuf' = inbuf \o Encode(d)
        /\ pending' = d
    /\ UNCHANGED <<eof, out, pc, frags, initialOpcode, ret, lastRx, g, gPings,
                   lastRaw, lastOut, gClosed>>
    /\ UNCHANGED <<writeVars, hsVars, envVars, replyFailed, delivered>>

\* the peer writes bytes that are not a whole frame, before the first data
\* frame of a call
PeerWriteRaw ==
    /\ ~eof
    /\ pc = "loop"
    /\ pending = None
    /\ frags = <<>>
    /\ \E w \in RawWrites :
        /\ inbuf' = inbuf \o w.bytes
        /\ eof' = w.close
        /\ pending' = w
    /\ UNCHANGED <<out, pc, frags, initialOpcode, ret, lastRx, g, gPings,
                   lastRaw, lastOut, gClosed>>
    /\ UNCHANGED <<writeVars, hsVars, envVars, replyFailed, delivered>>

\* the peer closes the connection; the waiting read sees the end of stream
PeerClose ==
    /\ ~eof
    /\ pc = "loop"
    /\ pending = None
    /\ eof' = TRUE
    /\ UNCHANGED <<inbuf, out, pc, frags, initialOpcode, ret, pending, lastRx, g, gPings,
                   lastRaw, lastOut, gClosed>>
    /\ UNCHANGED <<writeVars, hsVars, envVars, replyFailed, delivered>>

\* the embedder calls ReadMessage: frags := []*Frame{}, initialOpcode := 0
ReadMessageCall ==
    /\ pc = "idle"
    /\ pc' = "loop"
    /\ frags' = <<>>
    /\ initialOpcode' = 0
    /\ ret' = NoRet
    /\ g' = NoHistory
    /\ lastRx' = None
    /\ lastRaw' = None
    /\ lastOut' = <<>>
    /\ UNCHANGED <<inbuf, eof, out, pending, gPings, gClosed>>
    /\ UNCHANGED <<writeVars, hsVars, envVars, replyFailed, delivered>>

\* one iteration of ReadMessage's loop.  On a connection whose writes fail,
\* WriteFrame writes nothing and handleControlFrame returns the error, which
\* ReadMessage does not look at.
ReadMessageStep ==
    /\ pc = "loop"
    /\ Readable
    /\ LET r == readFrame(inbuf)
           a == Assemble(frags, initialOpcode, r.frame)
           d == IF IsRaw(pending) THEN None ELSE pending
       IN  /\ inbuf' = r.rest
           /\ pending' = None
           /\ lastRaw' = IF IsRaw(pending) THEN pending ELSE None
           /\ gClosed' = (gClosed \/ (r.err = "nil" /\ d # None /\ d.opcode = OpClose))
           /\ lastRx' = IF r.err = "nil" THEN d ELSE None
           /\ g' = IF r.err = "nil" /\ d # None THEN Sent(g, d) ELSE g
           /\ gPings' = IF r.err = "nil" /\ d # None /\ d.opcode = OpPing
                        THEN Append(gPings, d.data) ELSE gPings
           /\ replyFailed' = (\/ replyFailed
                               \/ /\ r.err = "nil" /\ isControlFrame(r.frame)
                                  /\ wbroken /\ handleControlFrame(r.frame) # <<>>)
           /\ IF r.err = "EOF"
              THEN /\ ret' = Return("eof", <<>>, "nil")
                   /\ pc' = "idle"
                   /\ frags' = <<>>
                   /\ UNCHANGED <<out, initialOpcode>>
              ELSE IF r.err = "panic"
              THEN /\ ret' = Return("panic", <<>>, "makeslice: len out of range")
                   /\ pc' = "panic"
                   /\ frags' = <<>>
                   /\ UNCHANGED <<out, initialOpcode>>
              ELSE IF r.err # "nil"
              THEN /\ ret' = Return("readerr", <<>>, "error reading message")
                   /\ pc' = "idle"
                   /\ frags' = <<>>
                   /\ UNCHANGED <<out, initialOpcode>>
              ELSE IF isControlFrame(r.frame)
              THEN /\ out' = out \o (IF wbroken THEN <<>> ELSE handleControlFrame(r.frame))
                   /\ UNCHANGED <<pc, frags, initialOpcode, ret>>
              ELSE /\ ret' = a.ret
                   /\ pc' = IF a.done THEN "idle" ELSE "loop"
                   /\ frags' = IF a.done THEN <<>> ELSE a.frags
                   /\ initialOpcode' = a.init
                   /\ UNCHANGED out
    /\ lastOut' = SubSeq(out', Len(out) + 1, Len(out'))
    /\ delivered' = IF stream # <<>> /\ pc' = "idle" /\ ret'.site = "text"
                    THEN Append(delivered, ret'.msg) ELSE delivered
    /\ UNCHANGED eof
    /\ UNCHANGED <<writeVars, hsVars, envVars>>

Next == PeerWrite \/ PeerWriteRaw \/ PeerClose \/ ReadMessageCall \/ ReadMessageStep

Spec == Init /\ [][Next]_vars

----------------------------------------------------------------------------
(* Properties *)

\* ReadMessage returned a message to its caller (not the end of stream)
IsMessage(r) == r.site \notin {"none", "eof"} /\ r.err = "nil"

\* the server has written a close frame carrying this code
CloseWritten(code) ==
    \E i \in 1..Len(OutFrames(out)) :
        LET f == OutFrames(out)[i]
        IN  f.b0 % 16 = OpClose /\ Len(f.payload) >= 2 /\ Uint16(f.payload) = code

RECURSIVE PongsOf(_)
PongsOf(fs) ==
    IF Len(fs) = 0 THEN <<>>
    ELSE (IF fs[1].b0 % 16 = OpPong THEN <<fs[1].payload>> ELSE <<>>) \o PongsOf(Tail(fs))

\* C1: a message sent as a valid fragment sequence (text or binary first
\* frame with fin=0, continuations, a final continuation with fin=1), with
\* only pings and pongs between the fragments, is returned by ReadMessage as
\* one message equal to the concatenation of the fragment payloads.
C1_FragmentsDelivered ==
    (/\ g.shape = "complete"
     /\ g.clean
     /\ (g.kind = OpText => UTF8Valid(g.payload)))
    => (IsMessage(ret) /\ ret.msg = g.payload)

\* C2: the pongs the server has written are, in order, the payloads of the
\* pings it has received: one pong per ping, in the order of the pings.
C2_PongPerPingInOrder == PongsOf(OutFrames(out)) = gPings

\* two different pings have been answered, the second one between the
\* fragments of a message
C2_Witness ==
    /\ Len(gPings) = 2
    /\ gPings[1] # gPings[2]
    /\ g.shape = "assembling"
    /\ lastRx # None /\ lastRx.opcode = OpPing

\* C3: after a ping with payload p the last bytes written are the pong
\* 0x8A, len(p), p (fin=1, opcode 0xA, mask bit 0), and the call has not
\* returned anything for it.
C3_PingAnswered ==
    (lastRx # None /\ lastRx.opcode = OpPing) =>
        LET p == lastRx.data
            n == Len(out)
        IN  /\ pc = "loop"
            /\ ret = NoRet
            /\ n >= Len(p) + 2
            /\ SubSeq(out, n - Len(p) - 1, n) = <<138, Len(p)>> \o p

\* the ping 89 05 "Hello" has been answered by 8A 05 "Hello"
C3_Witness ==
    /\ lastRx # None /\ lastRx.opcode = OpPing /\ lastRx.data = Hello
    /\ out = <<138, 5>> \o Hello
    /\ pc = "loop"

\* what a frame's payload bytes on the wire decode to: unchanged without
\* the mask bit, byte i (from 0) XOR key byte i mod 4 with it
Decoded(d) ==
    LET raw == WirePayload(d)
    IN  IF d.masked
        THEN [i \in 1..Len(raw) |-> Xor(raw[i], MaskKey[((i - 1) % 4) + 1])]
        ELSE raw

\* C4: a single final text frame whose decoded payload is valid UTF-8 makes
\* ReadMessage return that decoded payload with no error.
C4_SingleTextFrame ==
    (/\ lastRx # None
     /\ lastRx.opcode = OpText /\ lastRx.fin
     /\ g.shape = "single"
     /\ UTF8Valid(Decoded(lastRx)))
    => ret = Return("text", Decoded(lastRx), "nil")

\* the masked "Hello" of the tests has been returned
C4_Witness ==
    /\ lastRx = PeerFrame(TRUE, 0, OpText, TRUE, 7, Hello)
    /\ g.shape = "single"
    /\ ret = Return("text", Hello, "nil")

\* C5: a binary message, in one frame or in fragments, is returned by
\* ReadMessage without error as one message equal to the bytes received.
C5_BinaryDelivered ==
    (g.kind = OpBinary /\ g.shape \in {"single", "complete"} /\ g.clean)
    => (IsMessage(ret) /\ ret.msg = g.payload)

\* C6: a text message whose whole payload is invalid UTF-8 is not returned
\* as a message, and a close frame with code 1007 has been written.
C6_InvalidTextClosed ==
    (g.kind = OpText /\ g.shape \in {"single", "complete"} /\ ~UTF8Valid(g.payload))
    => (~IsMessage(ret) /\ CloseWritten(1007))

\* C7: a fragmented text message whose concatenated payload is valid UTF-8
\* is returned, whatever the validity of its fragments taken alone; and an
\* invalid-UTF-8 error is returned only for a message that is complete and
\* whose concatenated payload is invalid.
C7_ValidatedOnceOnWhole ==
    /\ (g.kind = OpText /\ g.shape = "complete" /\ UTF8Valid(g.payload))
       => ret = Return("text", g.payload, "nil")
    /\ ret.site = "utf8"
       => (/\ g.shape \in {"single", "complete"}
           /\ lastRx # None /\ lastRx.fin
           /\ ~UTF8Valid(g.payload))

\* U+00E9 split across two fragments has been returned as one message
C7_Witness ==
    /\ g.kind = OpText /\ g.shape = "complete" /\ g.split
    /\ ret = Return("text", <<195, 169>>, "nil")

\* C8: a received frame with mask bit 0 yields no message, and a close
\* frame with code 1002 has been written.
C8_UnmaskedRejected ==
    (lastRx # None /\ ~lastRx.masked)
    => (~IsMessage(ret) /\ CloseWritten(1002))

\* C9: a received frame with an RSV bit set yields no message, and a close
\* frame with code 1002 has been written.
C9_RsvRejected ==
    (lastRx # None /\ lastRx.rsv # 0)
    => (~IsMessage(ret) /\ CloseWritten(1002))

\* C10: a received frame whose length is not minimally encoded yields no
\* message, and a close frame with code 1002 has been written.
C10_NonMinimalRejected ==
    (lastRx # None /\ NonMinimal(lastRx))
    => (~IsMessage(ret) /\ CloseWritten(1002))

\* the latest loop iteration ended the call with an error
Rejected == pc = "idle" /\ ret.site # "eof" /\ ret.err # "nil"

\* C11: a continuation frame received while no message is in progress
\* delivers nothing, and a close frame with code 1002 has been written.
C11_IdleContinuationClosed ==
    (/\ lastRx # None /\ lastRx.opcode = OpCont
     /\ g.shape = "bad" /\ g.kind = 0)
    => (~IsMessage(ret) /\ CloseWritten(1002))

\* C12: a text or binary frame received while a fragmented message is in
\* progress delivers nothing, and a close frame with code 1002 has been
\* written.
C12_AssemblingDataClosed ==
    (/\ lastRx # None /\ lastRx.opcode \in {OpText, OpBinary}
     /\ g.shape = "bad" /\ g.kind \in {OpText, OpBinary})
    => (~IsMessage(ret) /\ CloseWritten(1002))

IsReserved(op) == op \in (3..7) \cup (11..15)

\* C13: a frame with a reserved opcode is not appended to a message, is not
\* delivered, and a close frame with code 1002 has been written.
C13_ReservedOpcodeClosed ==
    (lastRx # None /\ IsReserved(lastRx.opcode))
    => (frags = <<>> /\ ~IsMessage(ret) /\ CloseWritten(1002))

\* C14: a control frame with fin=0 or with more than 125 bytes of payload
\* ends the call with an error, and nothing is written in reply to it.
C14_BadControlRejected ==
    (lastRx # None /\ IsControl(lastRx) /\ (~lastRx.fin \/ Len(lastRx.data) > 125))
    => (Rejected /\ lastOut = <<>>)

\* close codes allowed on the wire (RFC 6455 section 7.4)
ValidCloseCode(c) == c \in (1000..1003) \cup (1007..1011) \cup (3000..4999)

\* the code of the reply to a close frame with payload p
ExpectedCloseReply(p) ==
    IF Len(p) < 2 THEN 1000
    ELSE IF ~UTF8Valid(Drop(p, 2)) THEN 1007
    ELSE IF ValidCloseCode(Uint16(p)) THEN 1000
    ELSE 1002

\* C15: what the server writes on a close frame is exactly one close frame,
\* with code 1000 for an absent or valid received code, 1002 for an invalid
\* one, 1007 for a reason that is not UTF-8.
C15_CloseReplyCode ==
    (lastRx # None /\ lastRx.opcode = OpClose /\ lastRx.fin)
    => LET fs == OutFrames(lastOut)
       IN  /\ Len(fs) = 1
           /\ fs[1].b0 = 128 + OpClose
           /\ Len(fs[1].payload) >= 2
           /\ Uint16(fs[1].payload) = ExpectedCloseReply(lastRx.data)

\* C16: in the server's output no frame follows a close frame.
C16_CloseIsLastFrame ==
    \A i \in 1..Len(OutFrames(out)) :
        OutFrames(out)[i].b0 % 16 = OpClose => i = Len(OutFrames(out))

\* C17: once a close frame of the peer has been consumed, no call returns a
\* message.
C17_NoMessageAfterClose == gClosed => ~IsMessage(ret)

\* C18: bytes of a frame cut short by the end of the stream make the read
\* fail: the call returns an error and no message.
C18_TruncatedFrameFails ==
    (lastRaw # None /\ lastRaw.close)
    => (pc = "idle" /\ ret.site = "readerr")

\* C19: a 64-bit length with the high bit set makes the read fail with an
\* error; no buffer of a negative size is asked for.
C19_HugeLengthFails ==
    (lastRaw = HighBitHeader)
    => (pc # "panic" /\ Rejected)

RECURSIVE BufferedSize(_)
BufferedSize(fs) ==
    IF Len(fs) = 0 THEN 0 ELSE Len(fs[1].Payload) + BufferedSize(Tail(fs))

\* C20: the bytes buffered for the message in progress never exceed the cap.
C20_BufferBounded == BufferedSize(frags) <= MaxBuffered

----------------------------------------------------------------------------
(* Writers: tasks that call WriteFrame on one connection *)

\* n payload bytes
Pattern(n) == [i \in 1..n |-> (i * 7) % 256]

\* payload lengths at the edges of the three length forms
Sizes == {0, 1, 125, 126, 65535, 65536}

\* frames the application sends: SendTextFrame, SendBinaryFrame,
\* SendPongFrame, WriteFrame with a ping or a non-final text frame, and
\* SendCloseFrame with reasons of 0, 123 and 124 bytes
AppFrames ==
    {[Fin |-> TRUE, Opcode |-> op, Payload |-> Pattern(n)] :
        op \in {OpText, OpBinary, OpPing, OpPong}, n \in Sizes}
    \cup {[Fin |-> FALSE, Opcode |-> OpText, Payload |-> Pattern(1)]}
    \cup {CloseFrame(NormalClosure, Pattern(n)) : n \in {0, 123, 124}}

\* frames handleControlFrame sends: the pong for a ping of 1 or 126 bytes,
\* the reply to a close
ReaderFrames ==
    {PongFrame(<<72>>), PongFrame(Pattern(126)),
     CloseFrame(NormalClosure, ClosingInResponse)}

FramesOf(t) == IF t = "reader" THEN ReaderFrames ELSE AppFrames

\* WriteFrame up to and including w.Write(header)
WriteBegin(t) ==
    /\ wpc[t] = "idle"
    /\ \E f \in FramesOf(t) :
        /\ out' = out \o FrameHeader(f)
        /\ wf' = [wf EXCEPT ![t] = f]
        /\ wlog' = Append(wlog, f)
    /\ wpc' = [wpc EXCEPT ![t] = "payload"]
    /\ UNCHANGED <<inbuf, eof, pc, frags, initialOpcode, ret, pending, lastRx, g, gPings,
                   lastRaw, lastOut, gClosed, rf, hsVars, envVars, replyFailed, delivered>>

\* WriteFrame's w.Write(f.Payload) and return
WriteEnd(t) ==
    /\ wpc[t] = "payload"
    /\ out' = out \o wf[t].Payload
    /\ wpc' = [wpc EXCEPT ![t] = "done"]
    /\ UNCHANGED <<inbuf, eof, pc, frags, initialOpcode, ret, pending, lastRx, g, gPings,
                   lastRaw, lastOut, gClosed, wf, wlog, rf, hsVars,
                   envVars, replyFailed, delivered>>

\* the other end runs readFrame on what has been written
ReadBack ==
    /\ \A t \in Tasks : wpc[t] # "payload"
    /\ out # <<>>
    /\ rf = None
    /\ rf' = readFrame(out)
    /\ UNCHANGED <<connVars, wpc, wf, wlog, hsVars, envVars, replyFailed, delivered>>

NextWrite ==
    \/ \E t \in Tasks : WriteBegin(t)
    \/ \E t \in Tasks : WriteEnd(t)
    \/ ReadBack

SpecWrite == Init /\ [][NextWrite]_vars

\* n as k bytes, most significant first
RECURSIVE BigEndian(_, _)
BigEndian(n, k) ==
    IF k = 0 THEN <<>> ELSE BigEndian(n \div 256, k - 1) \o <<n % 256>>

\* the header of a server frame per RFC 6455 section 5.2: mask bit 0, no
\* key, the shortest length form
ServerHeader(f) ==
    LET n  == Len(f.Payload)
        b0 == (IF f.Fin THEN 128 ELSE 0) + f.Opcode
    IN  IF n <= 125 THEN <<b0, n>>
        ELSE IF n <= 65535 THEN <<b0, 126>> \o BigEndian(n, 2)
        ELSE <<b0, 127>> \o BigEndian(n, 8)

\* one frame has been written, or is being written, and nothing else
OneWrite == Len(wlog) = 1

Writing == \E t \in Tasks : wpc[t] = "payload"

\* C21: the bytes WriteFrame has written for a frame are its header with
\* mask bit 0, no masking key and the shortest length form, followed by the
\* payload; while the payload is still to be written, they are that header.
C21_WriteFrameEncoding ==
    OneWrite =>
        /\ out[2] < 128
        /\ Writing => out = ServerHeader(wlog[1])
        /\ ~Writing => out = ServerHeader(wlog[1]) \o wlog[1].Payload

\* a frame of 65536 bytes has been written whole, in the 64-bit form
C21_Witness ==
    /\ OneWrite /\ ~Writing
    /\ Len(wlog[1].Payload) = 65536
    /\ SubSeq(out, 2, 10) = <<127, 0, 0, 0, 0, 0, 1, 0, 0>>

\* C22: readFrame on the bytes WriteFrame wrote for a final text, binary,
\* ping, pong or close frame gives a frame with the same fin, opcode and
\* payload, and leaves no byte unread.
C22_RoundTrip ==
    (/\ rf # None /\ OneWrite
     /\ wlog[1].Fin
     /\ wlog[1].Opcode \in {OpText, OpBinary, OpPing, OpPong, OpClose})
    => (rf.err = "nil" /\ rf.frame = wlog[1] /\ rf.rest = <<>>)

\* a binary frame of 126 bytes, written in the 16-bit form, has been read back
C22_Witness ==
    /\ rf # None /\ OneWrite
    /\ wlog[1].Opcode = OpBinary /\ Len(wlog[1].Payload) = 126
    /\ rf.frame.Payload = Pattern(126)

\* C23: once no write is under way, the bytes written are the frames written,
\* whole, one after the other.
C23_NoInterleaving ==
    (~Writing /\ Len(wlog) = 2)
    => \/ out = WriteFrame(wlog[1]) \o WriteFrame(wlog[2])
       \/ out = WriteFrame(wlog[2]) \o WriteFrame(wlog[1])

\* C24: every control frame the server writes has fin=1 and at most 125
\* bytes of payload.
C24_ControlFramesSmall ==
    \A i \in 1..Len(wlog) :
        wlog[i].Opcode >= 8 => (wlog[i].Fin /\ Len(wlog[i].Payload) <= 125)

----------------------------------------------------------------------------
(* Opening handshake: strings are sequences of character codes *)

\* "GET"
StrGET ==
    <<71, 69, 84>>

\* "POST"
StrPOST ==
    <<80, 79, 83, 84>>

\* "localhost:8080"
StrHost ==
    <<108, 111, 99, 97, 108, 104, 111, 115, 116, 58, 56, 48, 56, 48>>

\* "websocket"
StrWebsocket ==
    <<119, 101, 98, 115, 111, 99, 107, 101, 116>>

\* "WebSocket"
StrWebSocketMixed ==
    <<87, 101, 98, 83, 111, 99, 107, 101, 116>>

\* "h2c"
StrH2c ==
    <<104, 50, 99>>

\* "Upgrade"
StrUpgrade ==
    <<85, 112, 103, 114, 97, 100, 101>>

\* "upgrade"
StrUpgradeLower ==
    <<117, 112, 103, 114, 97, 100, 101>>

\* "keep-alive,Upgrade"
StrKeepAliveUpgrade ==
    <<107, 101, 101, 112, 45, 97, 108, 105, 118, 101, 44, 85, 112, 103,
      114, 97, 100, 101>>

\* "keep-alive, Upgrade"
StrKeepAliveSpUpgrade ==
    <<107, 101, 101, 112, 45, 97, 108, 105, 118, 101, 44, 32, 85, 112, 103,
      114, 97, 100, 101>>

\* "keep-alive"
StrKeepAlive ==
    <<107, 101, 101, 112, 45, 97, 108, 105, 118, 101>>

\* "13"
Str13 ==
    <<49, 51>>

\* "8"
Str8 ==
    <<56>>

\* the key of the RFC 6455 example (16 bytes), and 16 zero bytes
\* "dGhlIHNhbXBsZSBub25jZQ=="
SampleKey ==
    <<100, 71, 104, 108, 73, 72, 78, 104, 98, 88, 66, 115, 90, 83, 66, 117,
      98, 50, 53, 106, 90, 81, 61, 61>>

\* "AAAAAAAAAAAAAAAAAAAAAA=="
ZeroKey ==
    <<65, 65, 65, 65, 65, 65, 65, 65, 65, 65, 65, 65, 65, 65, 65, 65, 65,
      65, 65, 65, 65, 65, 61, 61>>

\* keys that decode to 3 and to 20 bytes, a key with a character outside the
\* alphabet, a key without its padding
\* "AAAA"
ShortKey ==
    <<65, 65, 65, 65>>

\* "s3pPLMBiTxaQ9kYGzzhZRbK+xOo="
LongKey ==
    <<115, 51, 112, 80, 76, 77, 66, 105, 84, 120, 97, 81, 57, 107, 89, 71,
      122, 122, 104, 90, 82, 98, 75, 43, 120, 79, 111, 61>>

\* "dGhlIHNhbXBsZSBub25jZQ=!"
BadKey ==
    <<100, 71, 104, 108, 73, 72, 78, 104, 98, 88, 66, 115, 90, 83, 66, 117,
      98, 50, 53, 106, 90, 81, 61, 33>>

\* "dGhlIHNhbXBsZSBub25jZQ"
UnpaddedKey ==
    <<100, 71, 104, 108, 73, 72, 78, 104, 98, 88, 66, 115, 90, 83, 66, 117,
      98, 50, 53, 106, 90, 81>>

\* strings.ToLower, on ASCII
ToLower(s) == [i \in 1..Len(s) |-> IF s[i] >= 65 /\ s[i] <= 90 THEN s[i] + 32 ELSE s[i]]

\* strings.Split(s, ","): the pieces between the commas, nothing trimmed
RECURSIVE SplitComma(_, _)
SplitComma(s, piece) ==
    IF Len(s) = 0 THEN <<piece>>
    ELSE IF s[1] = 44 THEN <<piece>> \o SplitComma(Tail(s), <<>>)
    ELSE SplitComma(Tail(s), Append(piece, s[1]))

IsSpace(c) == c \in (9..13) \cup {32}

\* a faulty TrimSpace: only leading white space is removed
RECURSIVE TrimSpaceLeft(_)
TrimSpaceLeft(s) ==
    IF Len(s) = 0 THEN s
    ELSE IF IsSpace(s[1]) THEN TrimSpaceLeft(Tail(s))
    ELSE s

\* strings.TrimSpace, on ASCII
RECURSIVE TrimSpace(_)
TrimSpace(s) ==
    IF Len(s) = 0 THEN s
    ELSE IF IsSpace(s[1]) THEN TrimSpace(Tail(s))
    ELSE IF IsSpace(s[Len(s)]) THEN TrimSpace(SubSeq(s, 1, Len(s) - 1))
    ELSE s

\* "ABCDEFGHIJKLMNOPQRSTUVWXYZabcdefghijklmnopqrstuvwxyz0123456789+/"
Base64Alphabet ==
    <<65, 66, 67, 68, 69, 70, 71, 72, 73, 74, 75, 76, 77, 78, 79, 80, 81,
      82, 83, 84, 85, 86, 87, 88, 89, 90, 97, 98, 99, 100, 101, 102, 103,
      104, 105, 106, 107, 108, 109, 110, 111, 112, 113, 114, 115, 116, 117,
      118, 119, 120, 121, 122, 48, 49, 50, 51, 52, 53, 54, 55, 56, 57, 43,
      47>>

\* the value of character c in the standard alphabet, -1 outside it
Base64Index(c) ==
    IF \E i \in 1..64 : Base64Alphabet[i] = c
    THEN (CHOOSE i \in 1..64 : Base64Alphabet[i] = c) - 1
    ELSE -1

Corrupt == [ok |-> FALSE, bytes |-> <<>>]

\* a faulty DecodeString: what it decodes is cut to 16 bytes
RECURSIVE DecodeStringFirst16(_)
DecodeStringFirst16(s) ==
    IF Len(s) = 0 THEN [ok |-> TRUE, bytes |-> <<>>]
    ELSE IF Len(s) < 4 THEN Corrupt
    ELSE LET v1 == Base64Index(s[1])
             v2 == Base64Index(s[2])
             v3 == Base64Index(s[3])
             v4 == Base64Index(s[4])
             rest == DecodeStringFirst16(SubSeq(s, 5, Len(s)))
         IN  IF v1 < 0 \/ v2 < 0 THEN Corrupt
             ELSE IF s[3] = 61
             THEN IF s[4] = 61 /\ Len(s) = 4
                  THEN [ok |-> TRUE, bytes |-> <<(v1 * 4) + (v2 \div 16)>>]
                  ELSE Corrupt
             ELSE IF v3 < 0 THEN Corrupt
             ELSE IF s[4] = 61
             THEN IF Len(s) = 4
                  THEN [ok |-> TRUE,
                        bytes |-> <<(v1 * 4) + (v2 \div 16),
                                    ((v2 % 16) * 16) + (v3 \div 4)>>]
                  ELSE Corrupt
             ELSE IF v4 < 0 \/ ~rest.ok THEN Corrupt
             ELSE [ok |-> TRUE,
                   bytes |-> SubSeq(<<(v1 * 4) + (v2 \div 16),
                                      ((v2 % 16) * 16) + (v3 \div 4),
                                      ((v3 % 4) * 64) + v4>> \o rest.bytes,
                                    1, Min(16, 3 + Len(rest.bytes)))]

\* base64.StdEncoding.DecodeString on a string without CR or LF: quantums
\* of four characters, '=' padding required in the last one
RECURSIVE DecodeString(_)
DecodeString(s) ==
    IF Len(s) = 0 THEN [ok |-> TRUE, bytes |-> <<>>]
    ELSE IF Len(s) < 4 THEN Corrupt
    ELSE LET v1 == Base64Index(s[1])
             v2 == Base64Index(s[2])
             v3 == Base64Index(s[3])
             v4 == Base64Index(s[4])
             rest == DecodeString(SubSeq(s, 5, Len(s)))
         IN  IF v1 < 0 \/ v2 < 0 THEN Corrupt
             ELSE IF s[3] = 61
             THEN IF s[4] = 61 /\ Len(s) = 4
                  THEN [ok |-> TRUE, bytes |-> <<(v1 * 4) + (v2 \div 16)>>]
                  ELSE Corrupt
             ELSE IF v3 < 0 THEN Corrupt
             ELSE IF s[4] = 61
             THEN IF Len(s) = 4
                  THEN [ok |-> TRUE,
                        bytes |-> <<(v1 * 4) + (v2 \div 16),
                                    ((v2 % 16) * 16) + (v3 \div 4)>>]
                  ELSE Corrupt
             ELSE IF v4 < 0 \/ ~rest.ok THEN Corrupt
             ELSE [ok |-> TRUE,
                   bytes |-> <<(v1 * 4) + (v2 \div 16),
                               ((v2 % 16) * 16) + (v3 \div 4),
                               ((v3 % 4) * 64) + v4>> \o rest.bytes]

\* base64.StdEncoding.EncodeToString
RECURSIVE EncodeToString(_)
EncodeToString(b) ==
    LET ch(v) == Base64Alphabet[v + 1] IN
    IF Len(b) = 0 THEN <<>>
    ELSE IF Len(b) = 1
    THEN <<ch(b[1] \div 4), ch((b[1] % 4) * 16), 61, 61>>
    ELSE IF Len(b) = 2
    THEN <<ch(b[1] \div 4), ch(((b[1] % 4) * 16) + (b[2] \div 16)),
           ch((b[2] % 16) * 4), 61>>
    ELSE <<ch(b[1] \div 4), ch(((b[1] % 4) * 16) + (b[2] \div 16)),
           ch(((b[2] % 16) * 4) + (b[3] \div 64)), ch(b[3] % 64)>>
         \o EncodeToString(SubSeq(b, 4, Len(b)))

----------------------------------------------------------------------------
(* crypto/sha1: 32-bit words are pairs <<high 16 bits, low 16 bits>> *)

RECURSIVE AndBits(_, _, _)
AndBits(a, b, n) ==
    IF n = 0 THEN 0
    ELSE ((a % 2) * (b % 2)) + 2 * AndBits(a \div 2, b \div 2, n - 1)

WXor(a, b) == <<XorBits(a[1], b[1], 16), XorBits(a[2], b[2], 16)>>

WAnd(a, b) == <<AndBits(a[1], b[1], 16), AndBits(a[2], b[2], 16)>>

WNot(a) == <<65535 - a[1], 65535 - a[2]>>

\* addition modulo 2^32
WAdd(a, b) ==
    LET lo == a[2] + b[2]
    IN  <<(a[1] + b[1] + (lo \div 65536)) % 65536, lo % 65536>>

\* rotate left by k bits, 0 < k < 16
RotlSmall(a, k) ==
    <<((a[1] * (2^k)) + (a[2] \div (2^(16 - k)))) % 65536,
      ((a[2] * (2^k)) + (a[1] \div (2^(16 - k)))) % 65536>>

\* rotate left by k bits, 0 < k < 32
Rotl(a, k) == IF k < 16 THEN RotlSmall(a, k) ELSE RotlSmall(<<a[2], a[1]>>, k - 16)

\* the message, a 1 bit, zeros, and the length in bits as 8 bytes, up to a
\* multiple of 64 bytes
ShaPad(m) ==
    LET n == Len(m)
        z == (119 - (n % 64)) % 64
    IN  m \o <<128>> \o Zeros(z)
          \o <<0, 0, 0, 0, 0, (n * 8) \div 65536, ((n * 8) \div 256) % 256, (n * 8) % 256>>

WordAt(m, i) == <<(m[i] * 256) + m[i + 1], (m[i + 2] * 256) + m[i + 3]>>

\* the message schedule, extended to upto words
RECURSIVE Schedule(_, _)
Schedule(w, upto) ==
    IF Len(w) >= upto THEN w
    ELSE LET t == Len(w) + 1
         IN  Schedule(Append(w, Rotl(WXor(WXor(w[t - 3], w[t - 8]),
                                          WXor(w[t - 14], w[t - 16])), 1)),
                      upto)

ShaF(t, b, c, d) ==
    IF t < 20 THEN WXor(WAnd(b, c), WAnd(WNot(b), d))
    ELSE IF t < 40 THEN WXor(b, WXor(c, d))
    ELSE IF t < 60 THEN WXor(WXor(WAnd(b, c), WAnd(b, d)), WAnd(c, d))
    ELSE WXor(b, WXor(c, d))

\* 5A827999, 6ED9EBA1, 8F1BBCDC, CA62C1D6
ShaK(t) ==
    IF t < 20 THEN <<23170, 31129>>
    ELSE IF t < 40 THEN <<28377, 60321>>
    ELSE IF t < 60 THEN <<36635, 48348>>
    ELSE <<51810, 49622>>

\* rounds t .. upto - 1 on the working state s = <<a, b, c, d, e>>
RECURSIVE Rounds(_, _, _, _)
Rounds(s, w, t, upto) ==
    IF t >= upto \/ Len(s) # 5 THEN s
    ELSE LET tmp == WAdd(WAdd(WAdd(Rotl(s[1], 5), ShaF(t, s[2], s[3], s[4])),
                              WAdd(s[5], ShaK(t))),
                         w[t + 1])
         IN  Rounds(<<tmp, s[1], Rotl(s[2], 30), s[3], s[4]>>, w, t + 1, upto)

ShaBlock(h, blk) ==
    LET w0 == [i \in 1..16 |-> WordAt(blk, (4 * i) - 3)]
        w  == Schedule(Schedule(Schedule(Schedule(SubSeq(w0, 1, 16), 32), 48), 64), 80)
        s  == Rounds(Rounds(Rounds(Rounds(h, w, 0, 20), w, 20, 40), w, 40, 60), w, 60, 80)
    IN  [i \in 1..5 |-> WAdd(h[i], s[i])]

RECURSIVE ShaBlocks(_, _)
ShaBlocks(h, m) ==
    IF Len(m) = 0 THEN h
    ELSE ShaBlocks(SubSeq(ShaBlock(h, SubSeq(m, 1, 64)), 1, 5), SubSeq(m, 65, Len(m)))

\* 67452301, EFCDAB89, 98BADCFE, 10325476, C3D2E1F0
ShaInit ==
    <<<<26437, 8961>>, <<61389, 43913>>, <<39098, 56574>>, <<4146, 21622>>,
      <<50130, 57840>>>>

\* the 20 bytes of the SHA-1 digest of message m
Sha1(m) ==
    LET h == ShaBlocks(ShaInit, ShaPad(m))
    IN  SubSeq([i \in 1..20 |->
                   LET wd == h[((i - 1) \div 4) + 1]
                       hw == wd[(((i - 1) % 4) \div 2) + 1]
                   IN  IF i % 2 = 1 THEN hw \div 256 ELSE hw % 256],
               1, 20)

----------------------------------------------------------------------------
(* Opening handshake: ValidateHeaders, SecAcceptSha, OpeningHandshake *)

\* "258EAFA5-E914-47DA-95CA-C5AB0DC85B11"
guid ==
    <<50, 53, 56, 69, 65, 70, 65, 53, 45, 69, 57, 49, 52, 45, 52, 55, 68,
      65, 45, 57, 53, 67, 65, 45, 67, 53, 65, 66, 48, 68, 67, 56, 53, 66,
      49, 49>>

\* a request as the handshake reads it: r.Method, r.Host, and r.Header.Get
\* of the four headers, which is empty for an absent header; Origin,
\* Sec-WebSocket-Protocol, Sec-WebSocket-Extensions and a header unknown to
\* the protocol are absent
Request(method, host, upgrade, connection, key, version) ==
    [method |-> method, host |-> host, upgrade |-> upgrade,
     connection |-> connection, key |-> key, version |-> version,
     origin |-> <<>>, protocol |-> <<>>, extensions |-> <<>>, other |-> <<>>]

\* a faulty ValidateHeaders: nothing is checked
ValidateHeadersAcceptAll(r) == "nil"

\* a faulty ValidateHeaders: the host is not looked at
ValidateHeadersNoHost(r) ==
    IF \E v \in {r.version, r.key, r.upgrade, r.connection} : v = <<>>
    THEN "missing required headers"
    ELSE IF ToLower(r.upgrade) # StrWebsocket
    THEN "invalid upgrade value"
    ELSE IF ~(\E i \in 1..Len(SplitComma(r.connection, <<>>)) :
                ToLower(SplitComma(r.connection, <<>>)[i]) = StrUpgradeLower)
    THEN "connection missing upgrade value"
    ELSE IF r.version # Str13
    THEN "Invalid Sec-WebSocket-Version"
    ELSE IF ~DecodeString(r.key).ok
    THEN "failed to decode client key"
    ELSE IF Len(DecodeString(r.key).bytes) # 16
    THEN "Sec-WebSocket-Key exceeds 16 bytes"
    ELSE "nil"

\* the error ValidateHeaders returns, "nil" for none; of the two messages
\* that end in a formatted value, the fixed part
ValidateHeaders(r) ==
    IF r.host = <<>>
    THEN "missing host header"
    ELSE IF \E v \in {r.version, r.key, r.upgrade, r.connection} : v = <<>>
    THEN "missing required headers"
    ELSE IF ToLower(r.upgrade) # StrWebsocket
    THEN "invalid upgrade value"
    ELSE IF ~(\E i \in 1..Len(SplitComma(r.connection, <<>>)) :
                ToLower(SplitComma(r.connection, <<>>)[i]) = StrUpgradeLower)
    THEN "connection missing upgrade value"
    ELSE IF r.version # Str13
    THEN "Invalid Sec-WebSocket-Version"
    ELSE IF ~DecodeString(r.key).ok
    THEN "failed to decode client key"
    ELSE IF Len(DecodeString(r.key).bytes) # 16
    THEN "Sec-WebSocket-Key exceeds 16 bytes"
    ELSE "nil"

\* a faulty SecAcceptSha: the GUID is left out of the hash
SecAcceptShaNoGuid(wk) == Sha1(TrimSpace(wk))

SecAcceptSha(wk) == Sha1(TrimSpace(wk) \o guid)

\* no response written yet: no status, no Upgrade, Connection,
\* Sec-WebSocket-Accept, Sec-WebSocket-Version or Sec-WebSocket-Protocol
\* header, no body.  late is the status of an http.Error called after
\* WriteHeader, hijack the outcome of taking the connection over.
NoResponse == [status |-> 0, upgrade |-> <<>>, connection |-> <<>>, accept |-> <<>>,
               version |-> <<>>, protocol |-> <<>>, body |-> "", late |-> 0,
               hijack |-> "none"]

\* a faulty OpeningHandshake: the subprotocols the client offers are sent back
OpeningHandshakeEchoProtocol(r) ==
    IF r.method # StrGET
    THEN [err |-> "Method Not Allowed", w |-> NoResponse]
    ELSE IF ValidateHeaders(r) # "nil"
    THEN [err |-> ValidateHeaders(r), w |-> NoResponse]
    ELSE [err |-> "nil",
          w |-> [NoResponse EXCEPT
                    !.upgrade = StrWebsocket,
                    !.connection = StrUpgrade,
                    !.accept = EncodeToString(SecAcceptSha(r.key)),
                    !.protocol = r.protocol,
                    !.status = 101]]

\* a faulty OpeningHandshake: the method is not looked at
OpeningHandshakeAnyMethod(r) ==
    IF ValidateHeaders(r) # "nil"
    THEN [err |-> ValidateHeaders(r), w |-> NoResponse]
    ELSE [err |-> "nil",
          w |-> [NoResponse EXCEPT
                    !.upgrade = StrWebsocket,
                    !.connection = StrUpgrade,
                    !.accept = EncodeToString(SecAcceptSha(r.key)),
                    !.status = 101]]

\* OpeningHandshake: the error it returns and what it has put on w
OpeningHandshake(r) ==
    IF r.method # StrGET
    THEN [err |-> "Method Not Allowed", w |-> NoResponse]
    ELSE IF ValidateHeaders(r) # "nil"
    THEN [err |-> ValidateHeaders(r), w |-> NoResponse]
    ELSE [err |-> "nil",
          w |-> [NoResponse EXCEPT
                    !.upgrade = StrWebsocket,
                    !.connection = StrUpgrade,
                    !.accept = EncodeToString(SecAcceptSha(r.key)),
                    !.status = 101]]

\* "http://example.com"
StrOrigin ==
    <<104, 116, 116, 112, 58, 47, 47, 101, 120, 97, 109, 112, 108, 101, 46, 99, 111, 109>>
\* "chat, superchat"
StrChatSuperchat ==
    <<99, 104, 97, 116, 44, 32, 115, 117, 112, 101, 114, 99, 104, 97, 116>>
\* "permessage-deflate"
StrDeflate ==
    <<112, 101, 114, 109, 101, 115, 115, 97, 103, 101, 45, 100, 101, 102, 108, 97, 116, 101>>
\* "abc", the value of a header X-Request-Id
StrOther ==
    <<97, 98, 99>>

NoOptional == [origin |-> <<>>, protocol |-> <<>>, extensions |-> <<>>, other |-> <<>>]

\* the headers the handshake does not read: none, each one alone, all four
Optionals ==
    {NoOptional,
     [NoOptional EXCEPT !.origin = StrOrigin],
     [NoOptional EXCEPT !.protocol = StrChatSuperchat],
     [NoOptional EXCEPT !.extensions = StrDeflate],
     [NoOptional EXCEPT !.other = StrOther],
     [origin |-> StrOrigin, protocol |-> StrChatSuperchat, extensions |-> StrDeflate,
      other |-> StrOther]}

WithOptional(r, o) ==
    [r EXCEPT !.origin = o.origin, !.protocol = o.protocol,
              !.extensions = o.extensions, !.other = o.other]

\* the requests a client sends
Requests ==
    {WithOptional(Request(m, h, u, c, k, v), o) :
        m \in {StrGET, StrPOST},
        h \in {<<>>, StrHost},
        u \in {<<>>, StrWebsocket, StrWebSocketMixed, StrH2c},
        c \in {<<>>, StrUpgrade, StrKeepAliveUpgrade, StrKeepAliveSpUpgrade, StrKeepAlive},
        k \in {<<>>, SampleKey, ZeroKey, ShortKey, LongKey, BadKey, UnpaddedKey},
        v \in {<<>>, Str13, Str8},
        o \in Optionals}

\* a request arrives at the /ws endpoint
ClientRequest ==
    /\ req = None
    /\ req' \in Requests
    /\ UNCHANGED <<connVars, writeVars, resp, upgraded, envVars, replyFailed, delivered>>

\* what taking the connection over gives: "ok"; "unsupported", w is not an
\* http.Hijacker; "failed", Hijack returns an error
HijackOutcomes == {"ok", "unsupported", "failed"}

\* WsHandler: an error of OpeningHandshake becomes
\* http.Error(w, err.Error(), 400).  Otherwise 101 has been written; the
\* connection is hijacked and given to a goroutine running ServeConn, or,
\* when it cannot be hijacked, http.Error(w, ..., 500) is called.
WsHandler ==
    /\ req # None
    /\ resp = None
    /\ LET h == OpeningHandshake(req)
       IN  IF h.err # "nil"
           THEN /\ resp' = [h.w EXCEPT !.status = 400, !.body = h.err]
                /\ upgraded' = FALSE
                /\ spc' = spc
           ELSE \E hj \in HijackOutcomes :
                  IF hj = "ok"
                  THEN /\ resp' = [h.w EXCEPT !.hijack = hj]
                       /\ upgraded' = TRUE
                       /\ spc' = "for"
                  ELSE /\ resp' = [h.w EXCEPT !.hijack = hj, !.late = 500,
                                              !.body = IF hj = "unsupported"
                                                       THEN "Hijacking not supported"
                                                       ELSE "Hijacking failed"]
                       /\ upgraded' = FALSE
                       /\ spc' = spc
    /\ UNCHANGED <<connVars, writeVars, req, acceptVars, stream, wbroken, replyFailed, delivered>>

\* the goroutine running ServeConn: the loop `for { }` goes round, from its
\* head to its empty body and back.  Nothing leaves the loop, so the deferred
\* conn.Conn.Close() is never run and spc never becomes "closed".
ServeConnLoop ==
    /\ spc \in {"for", "body"}
    /\ spc' = IF spc = "for" THEN "body" ELSE "for"
    /\ UNCHANGED <<connVars, writeVars, hsVars, acceptVars, stream, wbroken, replyFailed, delivered>>

\* the peer of an upgraded connection goes away
PeerGone ==
    /\ upgraded
    /\ ~eof
    /\ eof' = TRUE
    /\ UNCHANGED <<inbuf, out, pc, frags, initialOpcode, ret, pending, lastRx, g, gPings,
                   lastRaw, lastOut, gClosed>>
    /\ UNCHANGED <<writeVars, hsVars, envVars, replyFailed, delivered>>

NextHandshake == ClientRequest \/ WsHandler

SpecHandshake == Init /\ [][NextHandshake]_vars

----------------------------------------------------------------------------
(* Properties of the opening handshake *)

\* the accept tokens of SampleKey (RFC 6455, section 1.3) and of ZeroKey
\* "s3pPLMBiTxaQ9kYGzzhZRbK+xOo="
SampleAccept ==
    <<115, 51, 112, 80, 76, 77, 66, 105, 84, 120, 97, 81, 57, 107, 89, 71,
      122, 122, 104, 90, 82, 98, 75, 43, 120, 79, 111, 61>>

\* "ICX+Yqv66kxgM0FcWaLWlFLwTAI="
ZeroAccept ==
    <<73, 67, 88, 43, 89, 113, 118, 54, 54, 107, 120, 103, 77, 48, 70, 99,
      87, 97, 76, 87, 108, 70, 76, 119, 84, 65, 73, 61>>

Answered == req # None /\ resp # None

\* every check of the headers is met
HeadersValid == req # None /\ ValidateHeaders(req) = "nil"

\* C25: a GET request that passes validation is answered 101 with
\* Upgrade: websocket, Connection: Upgrade and the accept token of its key,
\* and the handshake reports success, so the connection is upgraded when
\* it can be taken over
C25_ValidRequestUpgraded ==
    (Answered /\ req.method = StrGET /\ HeadersValid) =>
        /\ OpeningHandshake(req).err = "nil"
        /\ resp.status = 101
        /\ resp.upgrade = StrWebsocket
        /\ resp.connection = StrUpgrade
        /\ req.key = SampleKey => resp.accept = SampleAccept
        /\ req.key = ZeroKey => resp.accept = ZeroAccept
        /\ resp.hijack = "ok" => upgraded

C25_Witness ==
    /\ Answered
    /\ req = Request(StrGET, StrHost, StrWebsocket, StrUpgrade, SampleKey, Str13)
    /\ resp.status = 101
    /\ resp.accept = SampleAccept
    /\ upgraded

\* C26: a request whose method is not GET is answered 400, without a
\* Sec-WebSocket-Accept header, and the connection is not upgraded
C26_NonGetRejected ==
    (Answered /\ req.method # StrGET) =>
        /\ resp.status = 400
        /\ resp.accept = <<>>
        /\ ~upgraded

C26_Witness ==
    /\ Answered
    /\ req = Request(StrPOST, StrHost, StrWebsocket, StrUpgrade, SampleKey, Str13)
    /\ resp.status = 400
    /\ ~upgraded

\* the host or one of the four headers is missing or empty
SomethingMissing ==
    req # None /\ \E v \in {req.host, req.upgrade, req.connection, req.key, req.version} : v = <<>>

\* C27: a request with an empty host, or with any of Upgrade, Connection,
\* Sec-WebSocket-Key, Sec-WebSocket-Version absent or empty, is rejected by
\* ValidateHeaders and is not answered 101
C27_MissingHeadersRejected ==
    SomethingMissing =>
        /\ ValidateHeaders(req) \in {"missing host header", "missing required headers"}
        /\ resp # None => (resp.status = 400 /\ ~upgraded)

C27_Witness ==
    /\ Answered
    /\ req = Request(StrGET, <<>>, StrWebsocket, StrUpgrade, SampleKey, Str13)
    /\ resp.status = 400
    /\ resp.body = "missing host header"

\* the tokens of a comma-separated list, optional white space around each
\* token removed
Tokens(s) == {TrimSpace(SplitComma(s, <<>>)[i]) : i \in 1..Len(SplitComma(s, <<>>))}

HasUpgradeToken(s) == \E t \in Tokens(s) : ToLower(t) = StrUpgradeLower

\* a GET request in which everything but the Connection header is valid
ValidButConnection ==
    /\ req # None
    /\ req.method = StrGET
    /\ ValidateHeaders([req EXCEPT !.connection = StrUpgrade]) = "nil"

\* C28: the Connection header is accepted exactly when its list of tokens
\* contains upgrade, in any case, "keep-alive, Upgrade" included
C28_ConnectionTokenList ==
    (Answered /\ ValidButConnection) =>
        (resp.status = 101 <=> HasUpgradeToken(req.connection))

\* a GET request in which everything but the version is valid, and the
\* version is present
ValidButVersion ==
    /\ req # None
    /\ req.method = StrGET
    /\ req.version # <<>>
    /\ ValidateHeaders([req EXCEPT !.version = Str13]) = "nil"

\* C29: a version other than 13 is answered 426 with
\* Sec-WebSocket-Version: 13
C29_UnsupportedVersion426 ==
    (Answered /\ ValidButVersion /\ req.version # Str13) =>
        (resp.status = 426 /\ resp.version = Str13)

\* the keys of Requests that are the standard base64 of exactly 16 bytes
SixteenByteKeys == {SampleKey, ZeroKey}

\* C30: a key is accepted only if it decodes to exactly 16 bytes: a key
\* that does not decode, or decodes to 3 or to 20 bytes, is rejected and no
\* 101 is written
C30_KeySixteenBytes ==
    Answered =>
        /\ resp.status = 101 => req.key \in SixteenByteKeys
        /\ req.key \notin SixteenByteKeys =>
              (ValidateHeaders(req) # "nil" /\ resp.status = 400 /\ ~upgraded)

C30_Witness ==
    /\ Answered
    /\ req = Request(StrGET, StrHost, StrWebsocket, StrUpgrade, LongKey, Str13)
    /\ resp.status = 400
    /\ resp.body = "Sec-WebSocket-Key exceeds 16 bytes"

----------------------------------------------------------------------------
(* Properties of the read loop: what it writes, the end of the stream *)

\* C37: an iteration of ReadMessage's loop writes only in reply to a ping
\* (one pong) or to a close (one close); a data frame, a continuation, a
\* pong, and every iteration that ends the call with an error or on a failed
\* read, writes nothing.
C37_WritesOnlyControlReplies ==
    /\ lastOut # <<>> =>
          /\ lastRx # None /\ lastRx.opcode \in {OpPing, OpClose}
          /\ Len(OutFrames(lastOut)) = 1
          /\ OutFrames(lastOut)[1].b0 =
                128 + (IF lastRx.opcode = OpPing THEN OpPong ELSE OpClose)
    /\ (lastRx # None /\ lastRx.opcode \notin {OpPing, OpClose}) => lastOut = <<>>
    /\ (pc # "loop" /\ ret.err # "nil") => lastOut = <<>>
    /\ lastRaw # None => lastOut = <<>>

\* after a ping was answered, a pong has been received and nothing written
C37_Witness ==
    /\ lastRx # None /\ lastRx.opcode = OpPong
    /\ lastOut = <<>>
    /\ out # <<>>
    /\ pc = "loop"

\* C38: when the stream ends at a frame boundary while fragments are
\* buffered, ReadMessage returns the empty message and a nil error, as it
\* does at the end of the stream with nothing buffered; the fragments are
\* dropped and not delivered.
C38_EofWhileAssembling ==
    /\ (pc = "idle" /\ g.shape = "assembling") =>
          /\ eof
          /\ ret = Return("eof", <<>>, "nil")
          /\ frags = <<>>
    /\ (pc = "idle" /\ g.shape = "idle" /\ eof /\ lastRaw = None /\ lastRx = None) =>
          ret = Return("eof", <<>>, "nil")

\* the stream ended after two fragments of a text message
C38_Witness ==
    /\ pc = "idle" /\ eof
    /\ g.shape = "assembling" /\ Len(g.payload) = 2
    /\ ret = Return("eof", <<>>, "nil")

\* C40: a close frame with fewer than 2 bytes of payload is answered by
\* exactly one close frame, with code 1000, and no close frame makes the
\* call return.
C40_ShortCloseAnswered ==
    /\ (lastRx # None /\ lastRx.opcode = OpClose /\ Len(lastRx.data) < 2) =>
          lastOut = <<136, 21, 3, 232>> \o ClosingInResponse
    /\ (lastRx # None /\ lastRx.opcode = OpClose) => (pc = "loop" /\ ret = NoRet)

\* a close frame with one byte of payload has been answered
C40_Witness ==
    /\ lastRx # None /\ lastRx.opcode = OpClose /\ Len(lastRx.data) = 1
    /\ out = <<136, 21, 3, 232>> \o ClosingInResponse

----------------------------------------------------------------------------
(* Properties of WsHandler and ServeConn *)

\* the request without the headers the handshake does not read
Stripped(r) == WithOptional(r, NoOptional)

\* C31: the answer to a request is the answer to the same request without
\* Origin, Sec-WebSocket-Protocol, Sec-WebSocket-Extensions and unknown
\* headers: same acceptance, status, Upgrade, Connection and
\* Sec-WebSocket-Accept; and no response carries Sec-WebSocket-Protocol.
C31_OptionalHeadersIgnored ==
    Answered =>
        /\ resp.protocol = <<>>
        /\ LET h == OpeningHandshake(Stripped(req))
           IN  /\ resp.status = (IF h.err = "nil" THEN 101 ELSE 400)
               /\ resp.upgrade = h.w.upgrade
               /\ resp.connection = h.w.connection
               /\ resp.accept = h.w.accept

\* a request offering subprotocols, with an origin, extensions and an
\* unknown header, has been accepted
C31_Witness ==
    /\ Answered
    /\ req.protocol = StrChatSuperchat /\ req.origin = StrOrigin
    /\ req.extensions = StrDeflate /\ req.other = StrOther
    /\ resp.status = 101
    /\ resp.accept = SampleAccept
    /\ resp.protocol = <<>>

\* the serving part: the handshake, then ServeConn on the hijacked connection
NextServe == ClientRequest \/ WsHandler \/ ServeConnLoop \/ PeerGone

\* the goroutine started by `go ServeConn(wsConn)` keeps being scheduled
SpecServe == Init /\ [][NextServe]_vars /\ WF_vars(ServeConnLoop)

\* C33: once the peer of a served connection has gone away, ServeConn
\* returns, and the transport has been closed by then.
C33_ServeConnTerminates == (spc # "none" /\ eof) ~> (spc = "closed")

\* C34: the connection is hijacked and ServeConn started only after a
\* successful handshake and its 101; a rejected handshake is answered by an
\* error status alone, without hijacking and without ServeConn; and after
\* 101 no error status is written.
C34_HijackAfter101Only ==
    /\ (upgraded \/ spc # "none") => (Answered /\ resp.status = 101)
    /\ (Answered /\ resp.status # 101) =>
          (resp.status = 400 /\ resp.hijack = "none" /\ ~upgraded /\ spc = "none")
    /\ (Answered /\ resp.status = 101) => resp.late = 0

\* a GET carrying none of the upgrade headers, as http.Get sends it
PlainGet ==
    /\ req # None
    /\ req.method = StrGET /\ req.host = StrHost
    /\ req.upgrade = <<>> /\ req.connection = <<>> /\ req.key = <<>> /\ req.version = <<>>

----------------------------------------------------------------------------
(* The accept token on its own *)

\* white space around a header value: none, a space, a tab, CR LF
Blanks == {<<>>, <<32>>, <<9>>, <<13, 10>>}

\* keys with white space before and after
KeyInputs ==
    {[core |-> k, lead |-> a, trail |-> b] :
        k \in {SampleKey, ZeroKey, ShortKey, LongKey, BadKey, UnpaddedKey},
        a \in Blanks, b \in Blanks}

InitAccept ==
    /\ clientKey \in KeyInputs
    /\ inbuf = <<>>
    /\ eof = FALSE
    /\ stream = <<>>
    /\ InitRest

\* h := SecAcceptSha(key); b64 := base64.StdEncoding.EncodeToString(h)
AcceptToken ==
    /\ clientKey # None
    /\ b64 = None
    /\ b64' = EncodeToString(SecAcceptSha(clientKey.lead \o clientKey.core \o clientKey.trail))
    /\ UNCHANGED <<connVars, writeVars, hsVars, clientKey, spc, stream, wbroken,
                   replyFailed, delivered>>

NextAccept == AcceptToken

SpecAccept == InitAccept /\ [][NextAccept]_vars

\* C32: the token of a key with white space around it is the token of the
\* key: the base64 of the SHA-1 of the key's text followed by the GUID, the
\* key not decoded; it has 28 characters and ends in '='.
C32_AcceptTokenOfTrimmedKey ==
    b64 # None =>
        /\ b64 = EncodeToString(Sha1(clientKey.core \o guid))
        /\ clientKey.core = SampleKey => b64 = SampleAccept
        /\ clientKey.core = ZeroKey => b64 = ZeroAccept
        /\ Len(b64) = 28
        /\ b64[28] = 61

\* the RFC key between a tab and CR LF gives the RFC token
C32_Witness ==
    /\ b64 # None
    /\ b64 = SampleAccept
    /\ clientKey = [core |-> SampleKey, lead |-> <<9>>, trail |-> <<13, 10>>]

----------------------------------------------------------------------------
(* A connection whose writes fail *)

\* from now on every write on the connection returns an error (the peer has
\* reset the connection, a write deadline has passed)
TransportBreak ==
    /\ ~wbroken
    /\ pc = "loop"
    /\ pending = None
    /\ wbroken' = TRUE
    /\ UNCHANGED <<connVars, writeVars, hsVars, acceptVars, spc, stream, replyFailed,
                   delivered>>

NextBroken == Next \/ TransportBreak

SpecBroken == Init /\ [][NextBroken]_vars

\* C35: once the write of a pong or of a close reply has failed, the call
\* has ended with an error: the loop reads no further frame and returns no
\* message.
C35_ReplyFailureStops ==
    replyFailed => (pc = "idle" /\ ret.err # "nil" /\ ~IsMessage(ret))

----------------------------------------------------------------------------
(* A stream handed to ReadMessage whole *)

\* frames of one stream
MaxStream == 4

\* a text message in one frame; the two fragments of a text message; a ping;
\* a text message with its length in the 16-bit form; a binary message
StreamFrames ==
    {PeerFrame(TRUE, 0, OpText, TRUE, 7, <<72>>),
     PeerFrame(FALSE, 0, OpText, TRUE, 7, <<195>>),
     PeerFrame(TRUE, 0, OpCont, TRUE, 7, <<169>>),
     PeerFrame(TRUE, 0, OpPing, TRUE, 7, <<72>>),
     PeerFrame(TRUE, 0, OpText, FALSE, 16, Hello),
     PeerFrame(TRUE, 0, OpBinary, FALSE, 7, Hello)}

Streams == UNION {[1..n -> StreamFrames] : n \in 1..MaxStream}

RECURSIVE EncodeAll(_)
EncodeAll(fs) == IF Len(fs) = 0 THEN <<>> ELSE Encode(fs[1]) \o EncodeAll(Tail(fs))

\* ReadMessage is given a reader over the bytes of a whole stream
\* (bytes.NewReader in the tests), which ends after them
InitStream ==
    /\ stream \in Streams
    /\ inbuf = EncodeAll(stream)
    /\ eof = TRUE
    /\ clientKey = None
    /\ InitRest

NextStream == ReadMessageCall \/ ReadMessageStep

SpecStream == InitStream /\ [][NextStream]_vars

\* the frames of the stream read so far, when the bytes left are those of
\* the frames after them
AtBoundary == \E n \in 0..Len(stream) : inbuf = EncodeAll(Drop(stream, n))

Consumed ==
    Take(stream, CHOOSE n \in 0..Len(stream) : inbuf = EncodeAll(Drop(stream, n)))

\* the payload of the fragments after the last final data frame of fs
RECURSIVE Partial(_)
Partial(fs) ==
    IF Len(fs) = 0 THEN <<>>
    ELSE LET d == fs[Len(fs)]
             before == SubSeq(fs, 1, Len(fs) - 1)
         IN  IF IsControl(d) THEN Partial(before)
             ELSE IF d.fin THEN <<>>
             ELSE Partial(before) \o d.data

\* the messages whose final frame is in fs, in wire order
RECURSIVE MessagesOf(_)
MessagesOf(fs) ==
    IF Len(fs) = 0 THEN <<>>
    ELSE LET d == fs[Len(fs)]
             before == SubSeq(fs, 1, Len(fs) - 1)
         IN  IF ~IsControl(d) /\ d.fin
             THEN Append(MessagesOf(before), Partial(before) \o d.data)
             ELSE MessagesOf(before)

\* fs is what a conforming peer sends as text: each message a final text
\* frame, or a text frame with fin=0 followed by continuations; every whole
\* message valid UTF-8
RECURSIVE Conforming(_)
Conforming(fs) ==
    IF Len(fs) = 0 THEN TRUE
    ELSE LET d == fs[Len(fs)]
             before == SubSeq(fs, 1, Len(fs) - 1)
             open == Partial(before) # <<>>
         IN  /\ Conforming(before)
             /\ IsControl(d)
                \/ /\ d.opcode = (IF open THEN OpCont ELSE OpText)
                   /\ d.fin => UTF8Valid(Partial(before) \o d.data)
                   /\ d.data # <<>>

====
